---- MODULE Spec2Model ----
(***************************************************************************)
(* A model of autoclaude's dependency-aware batch processor                *)
(* (src/autoclaude/dag.py): build_dag, topological_waves, MergeQueue and   *)
(* DAGProcessor.run with its concurrent wave execution.                    *)
(***************************************************************************)
EXTENDS Integers, Sequences, FiniteSets, TLC

(* ------------------------------ bounds -------------------------------- *)

\* Ticket identifiers are 1..NumTickets.
NumTickets == 3

\* Largest number of entries of a dependency specification.
MaxPairs == 3

\* Number of file paths a branch can modify.
NumFiles == 1
MaxChars == 7

\* Largest value of config.max_parallel that is tried.
MaxParallel == 2

Ids == 1..NumTickets

Files == 1..NumFiles

(* ------------------------------ helpers ------------------------------- *)

Range(s) == {s[i] : i \in 1..Len(s)}

Min(S) == CHOOSE x \in S : \A y \in S : x <= y

\* sorted(S) for a finite set of integers.
RECURSIVE SortedSeq(_)
SortedSeq(S) == IF S = {} THEN <<>> ELSE <<Min(S)>> \o SortedSeq(S \ {Min(S)})

\* Number of positions of sequence s that hold x.
Count(s, x) == Cardinality({i \in 1..Len(s) : s[i] = x})

RECURSIVE SumOver(_, _)
SumOver(f, S) ==
    IF S = {} THEN 0
    ELSE LET x == CHOOSE y \in S : TRUE IN f[x] + SumOver(f, S \ {x})

IsStrictlyAscending(s) == \A i \in 1..Len(s) - 1 : s[i] < s[i + 1]

\* Duplicate-free sequences over subsets of S (every order).
RECURSIVE Perms(_)
Perms(S) ==
    IF S = {} THEN {<<>>}
    ELSE UNION {{<<x>> \o p : p \in Perms(S \ {x})} : x \in S}

SeqsUpTo(S, n) == UNION {[1..k -> S] : k \in 0..n}

(* ------------------------------- state -------------------------------- *)

VARIABLES
    tickets,            \* run(tickets, ...): the ticket list
    deps,               \* run(..., deps): ticket -> list of prerequisites
    config,             \* AutoClaudeConfig fields the processor reads
    pc,                 \* position of DAGProcessor.run
    error,              \* the exception that left run, if any
    nodes,              \* build_dag's result (wave field written by topological_waves)
    in_degree,          \* topological_waves: in_degree
    remaining,          \* topological_waves: remaining
    tw_waves,           \* topological_waves: waves
    wave_num,           \* topological_waves: wave_num
    dag_waves,          \* dag_result.waves
    deps_for,           \* self._deps_for
    failed_tickets,     \* run: failed_tickets
    cur,                \* index in waves of the wave the for loop is at
    results,            \* dag_result.results_by_ticket
    wave_results,       \* _process_wave: results
    task,               \* state of each ticket's _limited_process task in the wave
    completed_branches, \* run: completed_branches (its keys)
    merged,             \* merge_branches: merged
    merging,            \* tickets whose git merge is in progress
    to_merge,           \* merge_branches: tickets of the for loop not yet reached
    trunk,              \* tickets whose branch the local base branch contains
    remote,             \* tickets whose branch the remote base branch contains
    merge_conflicts,    \* dag_result.merge_conflicts
    test_passed,        \* dag_result.test_passed
    invoked,            \* history: tickets process_single was called for
    ever_merged,        \* history: tickets merge_branches returned as merged
    git_log,            \* history: git and test commands executed, in order
    diff_out,           \* what git diff --name-only gives for each branch
    files_by_ticket,    \* detect_file_overlaps: files_by_ticket
    config_objects,     \* the AutoClaudeConfig objects: self.config and its copies
    ticket_config,      \* _process_ticket: ticket_config, the object each ticket uses
    ticket_pc,          \* position of each ticket's _process_ticket
    dep_spec            \* parse_deps(dep_spec): the specification string

planVars == <<nodes, in_degree, remaining, tw_waves, wave_num, dag_waves, deps_for>>

runVars == <<failed_tickets, cur, results, wave_results, task, completed_branches,
             merged, merging, to_merge, trunk, remote, merge_conflicts,
             test_passed, invoked, ever_merged, git_log>>

ovVars == <<diff_out, files_by_ticket>>

cfgVars == <<config_objects, ticket_config, ticket_pc>>

parseVars == <<dep_spec>>

vars == <<tickets, deps, config, pc, error, planVars, runVars, ovVars, cfgVars, parseVars>>

(* --------------------------- the data model --------------------------- *)

\* models.DAGNode
DAGNode(t, d) == [ticket_number |-> t, depends_on |-> d, wave |-> -1]

\* models.DAGWave
DAGWave(n, ts) == [wave_number |-> n, tickets |-> ts]

NoError == [type |-> "none"]

\* deps.get(t, [])
DepsGet(dps, t) == IF t \in DOMAIN dps THEN dps[t] ELSE <<>>

(* ------------------------------ parse_deps ---------------------------- *)

\* deps[child] = [parent]: the parents met before are lost.
AppendDep_Overwrite(d, c, p) ==
    IF c \in DOMAIN d
    THEN [d EXCEPT ![c] = <<p>>]
    ELSE d @@ (c :> <<p>>)

\* deps[child].append(parent)
AppendDep(d, c, p) ==
    IF c \in DOMAIN d
    THEN [d EXCEPT ![c] = Append(@, p)]
    ELSE d @@ (c :> <<p>>)

RECURSIVE ParseEntries(_, _)
ParseEntries(spec, d) ==
    IF spec = <<>> THEN d
    ELSE LET e == Head(spec) IN
         IF ~e.sep
         THEN ParseEntries(Tail(spec), d)
         ELSE ParseEntries(Tail(spec), AppendDep(d, e.child, e.parent))

parse_deps(spec) == ParseEntries(spec, <<>>)

\* The characters of a specification string: digits, the two separators and
\* the blank.
Digits == <<"0", "1", "2", "3", "4", "5", "6", "7", "8", "9">>

Chars == {"1", "2", ":", ",", " "}

\* str.strip(), lines 41, 44, 48, 49
RECURSIVE lstrip(_)
lstrip(s) == IF s # <<>> /\ Head(s) = " " THEN lstrip(Tail(s)) ELSE s

RECURSIVE rstrip(_)
rstrip(s) ==
    IF s # <<>> /\ s[Len(s)] = " " THEN rstrip(SubSeq(s, 1, Len(s) - 1)) ELSE s

strip(s) == rstrip(lstrip(s))

\* The first place of character ch in s.
find(s, ch) == Min({i \in 1..Len(s) : s[i] = ch})

\* str.split(sep), line 43: the pieces between the separators, at least one.
RECURSIVE split(_, _)
split(s, sep) ==
    IF sep \notin Range(s) THEN <<s>>
    ELSE <<SubSeq(s, 1, find(s, sep) - 1)>>
             \o split(SubSeq(s, find(s, sep) + 1, Len(s)), sep)

\* pair.split(":", 1), line 47: the text before and after the first colon.
child_str(pair) == SubSeq(pair, 1, find(pair, ":") - 1)

parent_str(pair) == SubSeq(pair, find(pair, ":") + 1, Len(pair))

\* int(text), lines 48-49: the value of a non-empty string of decimal digits;
\* anything else over these characters raises ValueError.
IsInt(text) == text # <<>> /\ \A i \in 1..Len(text) : text[i] \in Range(Digits)

DigitValue(ch) == (CHOOSE k \in 1..Len(Digits) : Digits[k] = ch) - 1

RECURSIVE int_of(_)
int_of(text) ==
    IF text = <<>> THEN 0
    ELSE 10 * int_of(SubSeq(text, 1, Len(text) - 1)) + DigitValue(text[Len(text)])

\* Lines 44-49 for one piece of the string: it has a colon and one of its
\* two sides is not an integer.
RaisesValueError(piece) ==
    LET pair == strip(piece) IN
    /\ ":" \in Range(pair)
    /\ ~(IsInt(strip(child_str(pair))) /\ IsInt(strip(parent_str(pair))))

\* Lines 44-49 for one piece that does not raise: skipped, or child and parent.
EntryOf(piece) ==
    LET pair == strip(piece) IN
    IF ":" \notin Range(pair) THEN [sep |-> FALSE, child |-> 0, parent |-> 0]
    ELSE [sep |-> TRUE,
          child |-> int_of(strip(child_str(pair))),
          parent |-> int_of(strip(parent_str(pair)))]

\* parse_deps(dep_spec) on the string, lines 35-51: the mapping, or the
\* ValueError of the first piece int() rejects.
parse_dep_spec(s) ==
    IF s = <<>> \/ strip(s) = <<>>
    THEN [ok |-> TRUE, deps |-> <<>>, error |-> NoError]
    ELSE LET pairs == split(s, ",")
             bad == {i \in 1..Len(pairs) : RaisesValueError(pairs[i])}
         IN  IF bad # {}
             THEN [ok |-> FALSE, deps |-> <<>>,
                   error |-> [type |-> "ValueError", pair |-> pairs[Min(bad)]]]
             ELSE [ok |-> TRUE,
                   deps |-> parse_deps([i \in 1..Len(pairs) |-> EntryOf(pairs[i])]),
                   error |-> NoError]

(* ------------------------------ build_dag ----------------------------- *)

\* Positions <<i, j>> of the prerequisites that are not in the ticket list.
UnknownDeps(tks, dps) ==
    {<<i, j>> \in (1..Len(tks)) \X (1..MaxPairs) :
        /\ j <= Len(DepsGet(dps, tks[i]))
        /\ DepsGet(dps, tks[i])[j] \notin Range(tks)}

\* The first such position in the order the two loops visit them.
FirstUnknown(tks, dps) ==
    CHOOSE p \in UnknownDeps(tks, dps) :
        \A q \in UnknownDeps(tks, dps) :
            p[1] < q[1] \/ (p[1] = q[1] /\ p[2] <= q[2])

\* build_dag without the membership test of lines 64-67.
build_dag_unchecked(tks, dps) ==
    [ok |-> TRUE,
     nodes |-> [i \in 1..Len(tks) |-> DAGNode(tks[i], DepsGet(dps, tks[i]))],
     error |-> NoError]

\* build_dag that returns the nodes in ticket order instead of list order.
build_dag_Sorted(tks, dps) ==
    LET tks_sorted == SortedSeq(Range(tks)) IN
    [ok |-> UnknownDeps(tks, dps) = {},
     nodes |-> IF UnknownDeps(tks, dps) = {}
               THEN [i \in 1..Len(tks_sorted) |->
                        DAGNode(tks_sorted[i], DepsGet(dps, tks_sorted[i]))]
               ELSE <<>>,
     error |-> IF UnknownDeps(tks, dps) = {} THEN NoError
               ELSE [type |-> "ValueError",
                     ticket |-> tks[FirstUnknown(tks, dps)[1]],
                     dep |-> DepsGet(dps, tks[FirstUnknown(tks, dps)[1]])[FirstUnknown(tks, dps)[2]]]]

\* build_dag that validates every entry of the mapping, listed child or not.
build_dag_CheckAllEntries(tks, dps) ==
    LET bad == {c \in DOMAIN dps : \E j \in 1..Len(dps[c]) : dps[c][j] \notin Range(tks)}
    IN  IF bad = {}
        THEN [ok |-> TRUE,
              nodes |-> [i \in 1..Len(tks) |-> DAGNode(tks[i], DepsGet(dps, tks[i]))],
              error |-> NoError]
        ELSE [ok |-> FALSE,
              nodes |-> <<>>,
              error |-> [type |-> "ValueError",
                         ticket |-> Min(bad),
                         dep |-> dps[Min(bad)][Min({j \in 1..Len(dps[Min(bad)]) :
                                                     dps[Min(bad)][j] \notin Range(tks)})]]]

\* build_dag, lines 54-69
build_dag(tks, dps) ==
    IF UnknownDeps(tks, dps) = {}
    THEN [ok |-> TRUE,
          nodes |-> [i \in 1..Len(tks) |-> DAGNode(tks[i], DepsGet(dps, tks[i]))],
          error |-> NoError]
    ELSE LET p == FirstUnknown(tks, dps) IN
         [ok |-> FALSE,
          nodes |-> <<>>,
          error |-> [type |-> "ValueError",
                     ticket |-> tks[p[1]],
                     dep |-> DepsGet(dps, tks[p[1]])[p[2]]]]

(* -------------------------- topological_waves ------------------------- *)

NodeOf(ns, t) == ns[CHOOSE i \in 1..Len(ns) : ns[i].ticket_number = t]

TicketNumbers(ns) == {ns[i].ticket_number : i \in 1..Len(ns)}

\* in_degree that does not count a ticket's dependency on itself.
InitialInDegree_IgnoringSelf(ns) ==
    [t \in TicketNumbers(ns) |->
        Cardinality({j \in 1..Len(NodeOf(ns, t).depends_on) :
                        NodeOf(ns, t).depends_on[j] # t})]

\* in_degree[node.ticket_number] = len(node.depends_on)
InitialInDegree(ns) ==
    [t \in TicketNumbers(ns) |-> Len(NodeOf(ns, t).depends_on)]

\* dependents[p]: the children appended for parent p, as child -> number of
\* times it was appended (the loop over the list only decrements counters).
dependents(ns, p) ==
    [c \in TicketNumbers(ns) |-> Count(NodeOf(ns, c).depends_on, p)]

\* ready taken from every ticket instead of the remaining ones.
Ready_IgnoringRemaining(rem, deg) == {t \in DOMAIN deg : deg[t] = 0}

\* ready without the in-degree test.
Ready_All(rem, deg) == rem

\* ready cut down to its smallest ticket.
Ready_OneAtATime(rem, deg) ==
    IF {t \in rem : deg[t] = 0} = {} THEN {} ELSE {Min({t \in rem : deg[t] = 0})}

\* ready = [t for t in remaining if in_degree[t] == 0]
Ready(rem, deg) == {t \in rem : deg[t] = 0}

\* The ready tickets in the order of the nodes, without sorted().
WaveTickets_NodeOrder(ready, ns) ==
    LET nums == [i \in 1..Len(ns) |-> ns[i].ticket_number]
    IN  SelectSeq(nums, LAMBDA t : t \in ready)

\* DAGWave(..., tickets=sorted(ready)), line 101
WaveTickets(ready, ns) == SortedSeq(ready)

\* in_degree after "for child in dependents.get(t, []): in_degree[child] -= 1"
\* has run for every t in ready.
Decrement(ns, deg, ready) ==
    [c \in DOMAIN deg |->
        deg[c] - SumOver([t \in ready |-> dependents(ns, t)[c]], ready)]

\* The loop that ends when no ticket is ready, without the cycle test.
LoopDone_NothingReady(rem, deg) == Ready(rem, deg) = {}

\* while remaining: (line 94) is over
LoopDone(rem, deg) == rem = {}

\* The wave number written on every node in each round.
AssignWave_All(ns, ready, n) == [i \in 1..Len(ns) |-> [ns[i] EXCEPT !.wave = n]]

\* node_map[t].wave = wave_num for every t in ready.
AssignWave(ns, ready, n) ==
    [i \in 1..Len(ns) |->
        IF ns[i].ticket_number \in ready THEN [ns[i] EXCEPT !.wave = n] ELSE ns[i]]

\* topological_waves, lines 90-112, from round n on: the waves returned, or
\* CycleError.
RECURSIVE KahnWaves(_, _, _, _)
KahnWaves(ns, rem, deg, n) ==
    IF LoopDone(rem, deg) THEN [ok |-> TRUE, waves |-> <<>>]
    ELSE LET ready == Ready(rem, deg) IN
         IF ready = {} THEN [ok |-> FALSE, waves |-> <<>>]
         ELSE LET rest == KahnWaves(ns, rem \ ready, Decrement(ns, deg, ready), n + 1)
              IN  [ok |-> rest.ok,
                   waves |-> <<DAGWave(n, WaveTickets(ready, ns))>> \o rest.waves]

\* topological_waves(nodes), lines 72-112
topological_waves(ns) == KahnWaves(ns, TicketNumbers(ns), InitialInDegree(ns), 1)

(* ------------------------------- inputs ------------------------------- *)

\* A dependency specification: its comma-separated entries, each "child:parent"
\* or a token without a separator.
NoSeparator == [sep |-> FALSE, child |-> 0, parent |-> 0]

Entries == {[sep |-> TRUE, child |-> c, parent |-> p] : c \in Ids, p \in Ids}
               \cup {NoSeparator}

DepSpecs == SeqsUpTo(Entries, MaxPairs)

\* The dependency maps parse_deps builds from the specifications.
DepMaps == {parse_deps(s) : s \in DepSpecs}

TicketLists == UNION {Perms(S) : S \in SUBSET Ids}

\* The configurations of a run: serial execution and the widest semaphore,
\* dry-run or not, a test command or none, a platform token or none.
Configs ==
    [max_parallel : {1, MaxParallel},
     dry_run : BOOLEAN,
     test_command : BOOLEAN,
     token_ok : BOOLEAN]

DefaultConfig ==
    [max_parallel |-> MaxParallel, dry_run |-> FALSE,
     test_command |-> FALSE, token_ok |-> TRUE]

\* The state before run has done anything, but for the position, the
\* branches and their diffs.
InitData ==
    /\ files_by_ticket = <<>>
    /\ error = NoError
    /\ nodes = <<>>
    /\ in_degree = <<>>
    /\ remaining = {}
    /\ tw_waves = <<>>
    /\ wave_num = 0
    /\ dag_waves = <<>>
    /\ deps_for = <<>>
    /\ failed_tickets = {}
    /\ cur = 0
    /\ results = <<>>
    /\ wave_results = <<>>
    /\ task = <<>>
    /\ merged = <<>>
    /\ merging = {}
    /\ to_merge = <<>>
    /\ trunk = {}
    /\ remote = {}
    /\ merge_conflicts = <<>>
    /\ test_passed = "None"
    /\ invoked = {}
    /\ ever_merged = {}
    /\ git_log = <<>>

\* AutoClaudeConfig, config.py 62-74: issue_number and worktree_path are None
\* and use_worktree is False unless set.
NoPath == [dir |-> "None", issue |-> 0]

BaseConfigObject == 0

BaseConfigs == [use_worktree : BOOLEAN, worktree_path : {NoPath}, issue_number : {0}]

\* Before any ticket has started: self.config is the only config object.
InitConfigObjects ==
    /\ config_objects = (BaseConfigObject :> [use_worktree |-> FALSE,
                                              worktree_path |-> NoPath,
                                              issue_number |-> 0])
    /\ ticket_config = <<>>
    /\ ticket_pc = <<>>

InitRest ==
    /\ pc = "build_dag"
    /\ completed_branches = {}
    /\ diff_out = <<>>
    /\ dep_spec = <<>>
    /\ InitConfigObjects
    /\ InitData

\* test_dag.py 80-104: the plan of tickets 197..202 and the diamond.
ExampleChain ==
    [tickets |-> <<197, 198, 199, 200, 201, 202>>,
     deps |-> (197 :> <<200>>) @@ (198 :> <<197>>)]

ExampleDiamond ==
    [tickets |-> <<1, 2, 3, 4>>,
     deps |-> (2 :> <<1>>) @@ (3 :> <<1>>) @@ (4 :> <<2, 3>>)]

\* Planning alone, on every ticket list and dependency map within the bounds
\* and on the two plans of the tests.
InitPlan ==
    /\ \/ tickets \in TicketLists /\ deps \in DepMaps
       \/ \E e \in {ExampleChain, ExampleDiamond} : tickets = e.tickets /\ deps = e.deps
    /\ config = DefaultConfig
    /\ InitRest

(* ------------------------------ planning ------------------------------ *)

\* run, line 350: nodes = build_dag(tickets, deps)
BuildDag ==
    /\ pc = "build_dag"
    /\ LET r == build_dag(tickets, deps) IN
       IF r.ok
       THEN /\ nodes' = r.nodes
            /\ pc' = "topo_init"
            /\ error' = error
       ELSE /\ nodes' = nodes
            /\ pc' = "raised"
            /\ error' = r.error
    /\ UNCHANGED <<parseVars, cfgVars, ovVars, tickets, deps, config, in_degree, remaining, tw_waves,
                   wave_num, dag_waves, deps_for, runVars>>

\* topological_waves, lines 80-92
TopoInit ==
    /\ pc = "topo_init"
    /\ in_degree' = InitialInDegree(nodes)
    /\ remaining' = TicketNumbers(nodes)
    /\ tw_waves' = <<>>
    /\ wave_num' = 1
    /\ pc' = "topo_loop"
    /\ UNCHANGED <<parseVars, cfgVars, ovVars, tickets, deps, config, error, nodes, dag_waves, deps_for, runVars>>

\* The error naming every ticket of the plan.
CycleTickets_AllTickets(rem) == SortedSeq(DOMAIN in_degree)

\* raise CycleError(... sorted(remaining) ...), lines 97-99
CycleTickets(rem) == SortedSeq(rem)

\* topological_waves, lines 94-110: one iteration of the while loop
KahnRound ==
    /\ pc = "topo_loop"
    /\ ~LoopDone(remaining, in_degree)
    /\ LET ready == Ready(remaining, in_degree) IN
       IF ready = {}
       THEN /\ pc' = "raised"
            /\ error' = [type |-> "CycleError", tickets |-> CycleTickets(remaining)]
            /\ UNCHANGED <<nodes, in_degree, remaining, tw_waves, wave_num>>
       ELSE /\ tw_waves' = Append(tw_waves, DAGWave(wave_num, WaveTickets(ready, nodes)))
            /\ remaining' = remaining \ ready
            /\ nodes' = AssignWave(nodes, ready, wave_num)
            /\ in_degree' = Decrement(nodes, in_degree, ready)
            /\ wave_num' = wave_num + 1
            /\ UNCHANGED <<pc, error>>
    /\ UNCHANGED <<parseVars, cfgVars, ovVars, tickets, deps, config, dag_waves, deps_for, runVars>>

\* topological_waves, line 112, and run, lines 351-366
TopoReturn ==
    /\ pc = "topo_loop"
    /\ LoopDone(remaining, in_degree)
    /\ dag_waves' = tw_waves
    /\ deps_for' = [t \in TicketNumbers(nodes) |-> NodeOf(nodes, t).depends_on]
    /\ failed_tickets' = {}
    /\ cur' = 1
    /\ pc' = "wave_loop"
    /\ UNCHANGED <<parseVars, cfgVars, ovVars, tickets, deps, config, error, nodes, in_degree, remaining,
                   tw_waves, wave_num, results, wave_results, task,
                   completed_branches, merged, merging, to_merge, trunk, remote,
                   merge_conflicts, test_passed, invoked, ever_merged, git_log>>

(* ------------------------- ProcessingResult --------------------------- *)

\* models.ProcessingResult: status, whether branch_name is set, error_message.
Result(st, br, err) == [status |-> st, branch |-> br, error |-> err]

SkippedMessage == "Skipped: upstream dependency failed"

MergeFailedMessage == "Merge into main failed"

\* What _process_ticket can return for a ticket: process_issue's results
\* (processor.py 98-229; the branch is created before the agent runs) and the
\* failed result built from an exception (dag.py 277-285). "blocked" stands
\* for every status that is neither COMPLETED nor FAILED (BLOCKED, CLARIFYING,
\* IN_PROGRESS): dag.py reads the status only in the two tests of lines 380
\* and 382. In dry-run mode neither the analysis nor the agent runs, so
\* nothing blocks.
TicketOutcomes(cfg) ==
    IF cfg.dry_run
    THEN {Result("completed", TRUE, "none"),
          Result("failed", FALSE, "exception")}
    ELSE {Result("completed", TRUE, "none"),
          Result("failed", TRUE, "agent error"),
          Result("failed", FALSE, "exception"),
          Result("blocked", TRUE, "none")}

NoResult == Result("none", FALSE, "none")

Task(st, r) == [st |-> st, result |-> r]

\* dict.update: the entries of new replace those of old.
Update(old, new) == new @@ old

(* ----------------------------- _process_wave --------------------------- *)

\* The wave loop taking the same wave again.
NextWave_Retry(i) == i

\* run, line 368: for wave in waves
NextWave(i) == i + 1

CurrentWave == dag_waves[cur]

\* The skip test with all() in place of any().
DepFailed_All(t, dfor, failed) ==
    /\ DepsGet(dfor, t) # <<>>
    /\ \A d \in Range(DepsGet(dfor, t)) : d \in failed

\* any(d in failed_tickets for d in node_deps), node_deps = self._deps_for.get(ticket, [])
DepFailed(t, dfor, failed) ==
    \E d \in Range(DepsGet(dfor, t)) : d \in failed

Running == {t \in DOMAIN task : task[t].st = "running"}

\* run, line 368 (loop entry) and _process_wave, lines 295-321
WaveStart ==
    /\ pc = "wave_loop"
    /\ cur <= Len(dag_waves)
    /\ LET skip == {t \in Range(CurrentWave.tickets) : DepFailed(t, deps_for, failed_tickets)}
           runnable == Range(CurrentWave.tickets) \ skip
       IN /\ wave_results' = [t \in skip |-> Result("failed", FALSE, SkippedMessage)]
          /\ task' = [t \in runnable |-> Task("waiting", NoResult)]
    /\ pc' = "executing"
    /\ UNCHANGED <<parseVars, cfgVars, ovVars, tickets, deps, config, error, planVars, failed_tickets, cur,
                   results, completed_branches, merged, merging, to_merge, trunk,
                   remote, merge_conflicts, test_passed, invoked, ever_merged, git_log>>

\* The tasks still waiting for the semaphore. gather starts the tasks in the
\* order of runnable, and the semaphore wakes its waiters in that order.
Waiting == {t \in DOMAIN task : task[t].st = "waiting"}

\* _limited_process, lines 298-300: the task gets the semaphore; then
\* _process_ticket, lines 269-274: TicketProcessor(ticket_config) is built and
\* process_single is called. The constructor is outside the try block; it
\* raises when the platform client cannot be built from the configuration.
\* The tasks started without the semaphore.
SemaphoreFree_Unbounded(cfg, running) == TRUE

SemaphoreFree(cfg, running) == Cardinality(running) < cfg.max_parallel

TaskStart(t) ==
    /\ pc = "executing"
    /\ t \in DOMAIN task
    /\ task[t].st = "waiting"
    /\ t = Min(Waiting)
    /\ SemaphoreFree(config, Running)
    /\ IF config.token_ok
       THEN /\ task' = [task EXCEPT ![t] = Task("running", NoResult)]
            /\ invoked' = invoked \cup {t}
       ELSE /\ task' = [task EXCEPT ![t] = Task("raised", NoResult)]
            /\ invoked' = invoked
    /\ UNCHANGED <<parseVars, cfgVars, ovVars, tickets, deps, config, pc, error, planVars, failed_tickets, cur,
                   results, wave_results, completed_branches, merged, merging,
                   to_merge, trunk, remote, merge_conflicts, test_passed,
                   ever_merged, git_log>>

\* _process_ticket, lines 274-285: process_single returns or raises; either
\* way the task ends with a ProcessingResult and releases the semaphore.
TaskFinish(t) ==
    /\ pc = "executing"
    /\ t \in DOMAIN task
    /\ task[t].st = "running"
    /\ \E r \in TicketOutcomes(config) :
          task' = [task EXCEPT ![t] = Task("returned", r)]
    /\ UNCHANGED <<parseVars, cfgVars, ovVars, tickets, deps, config, pc, error, planVars, failed_tickets, cur,
                   results, wave_results, completed_branches, merged, merging,
                   to_merge, trunk, remote, merge_conflicts, test_passed, invoked, ever_merged,
                   git_log>>

\* _process_wave, lines 324-330: exception items are dropped.
GatheredResults(tsk) ==
    [t \in {u \in DOMAIN tsk : tsk[u].st = "returned"} |-> tsk[t].result]

\* The merge test without the status.
Mergeable_AnyBranch(r) == r.branch

\* run, lines 378-383
Mergeable(r) == r.status = "completed" /\ r.branch

CompletedBranches(wres) == {t \in DOMAIN wres : Mergeable(wres[t])}

\* The failed set without the tickets that were skipped.
NewlyFailed_WithoutSkipped(wres) ==
    {t \in DOMAIN wres : wres[t].status = "failed" /\ wres[t].error # SkippedMessage}

\* The failed set fed with every result that is not completed.
NewlyFailed_NotCompleted(wres) == {t \in DOMAIN wres : wres[t].status # "completed"}

\* run, lines 382-383: elif result.status == ProcessingStatus.FAILED
NewlyFailed(wres) == {t \in DOMAIN wres : wres[t].status = "failed"}

\* The wait left as soon as one task has ended.
AllEnded_FirstCompleted(tsk) ==
    \E t \in DOMAIN tsk : tsk[t].st \in {"returned", "raised"}

\* await asyncio.gather(*tasks, return_exceptions=True), line 322: every
\* task has returned or raised.
AllEnded(tsk) ==
    \A t \in DOMAIN tsk : tsk[t].st \in {"returned", "raised"}

\* The merge phase entered with no branch at all.
MergeSkipped_Never(branches) == FALSE

\* run, lines 385-387: if not completed_branches: continue
MergeSkipped(branches) == branches = {}

\* asyncio.gather returns (line 322) once every task has ended; then
\* _process_wave, lines 324-330, and run, lines 375-390.
Collect ==
    /\ pc = "executing"
    /\ AllEnded(task)
    /\ LET wres == Update(wave_results, GatheredResults(task))
           branches == CompletedBranches(wres)
       IN /\ wave_results' = wres
          /\ results' = Update(results, wres)
          /\ completed_branches' = branches
          /\ failed_tickets' = failed_tickets \cup NewlyFailed(wres)
          /\ IF MergeSkipped(branches)
             THEN /\ pc' = "wave_loop"
                  /\ cur' = NextWave(cur)
             ELSE /\ pc' = IF Cardinality(branches) > 1 THEN "detect" ELSE "merge_checkout"
                  /\ cur' = cur
    /\ task' = <<>>
    /\ UNCHANGED <<parseVars, cfgVars, ovVars, tickets, deps, config, error, planVars, merged, merging,
                   to_merge, trunk, remote, merge_conflicts, test_passed, invoked, ever_merged,
                   git_log>>

(* ------------------------------ MergeQueue ----------------------------- *)

\* A command executed in the main repository, with the wave it ran in.
Cmd(op, t) == [op |-> op, ticket |-> t, wave |-> cur]

\* The command executed whatever the mode.
Logged_Always(cfg, log, cmd) == Append(log, cmd)

\* _run_git, lines 131-134: in dry-run mode nothing is executed.
Logged(cfg, log, cmd) == IF cfg.dry_run THEN log ELSE Append(log, cmd)

RECURSIVE LoggedAll(_, _, _)
LoggedAll(cfg, log, cmds) ==
    IF cmds = <<>> THEN log
    ELSE LoggedAll(cfg, Logged(cfg, log, Head(cmds)), Tail(cmds))

\* MergeConflict
MergeConflict(a, b, files) == [ticket_a |-> a, ticket_b |-> b, overlapping_files |-> files]

\* detect_file_overlaps, lines 157-171: the pairs of ticket_list in loop order.
RECURSIVE OverlapsFrom(_, _)
OverlapsFrom(fbt, pairs) ==
    IF pairs = <<>> THEN <<>>
    ELSE LET a == Head(pairs)[1]
             b == Head(pairs)[2]
             overlap == fbt[a] \cap fbt[b]
         IN (IF overlap # {} THEN <<MergeConflict(a, b, SortedSeq(overlap))>> ELSE <<>>)
                \o OverlapsFrom(fbt, Tail(pairs))

\* The pairs of neighbours only.
PairsOf_Adjacent(lst) == [i \in 1..Len(lst) - 1 |-> <<lst[i], lst[i + 1]>>]

RECURSIVE PairsOf(_)
PairsOf(lst) ==
    IF Len(lst) < 2 THEN <<>>
    ELSE [i \in 1..Len(lst) - 1 |-> <<lst[1], lst[i + 1]>>] \o PairsOf(Tail(lst))

detect_file_overlaps(cfg, fbt) ==
    IF cfg.dry_run THEN <<>>
    ELSE OverlapsFrom(fbt, PairsOf(SortedSeq(DOMAIN fbt)))

\* run, lines 390-398, and detect_file_overlaps. Each git diff either fails
\* (the ticket gets no entry in files_by_ticket) or lists the branch's files.
DetectOverlaps ==
    /\ pc = "detect"
    /\ \E ok \in SUBSET completed_branches :
       \E fbt \in [ok -> SUBSET Files] :
          LET shown == IF config.dry_run THEN <<>> ELSE fbt IN
          merge_conflicts' = merge_conflicts \o detect_file_overlaps(config, shown)
    /\ git_log' = IF config.dry_run THEN git_log
                  ELSE LoggedAll(config, git_log,
                                 [i \in 1..Cardinality(completed_branches) |->
                                     Cmd("diff", SortedSeq(completed_branches)[i])])
    /\ pc' = "merge_checkout"
    /\ UNCHANGED <<parseVars, cfgVars, ovVars, tickets, deps, config, error, planVars, failed_tickets, cur,
                   results, wave_results, task, completed_branches, merged, merging,
                   to_merge, trunk, remote, test_passed, invoked, ever_merged>>

\* subprocess.CompletedProcess of a git diff: its return code and the file
\* names of its output.
DiffResult(rc, files) == [returncode |-> rc, files |-> files]

\* One more file than the run uses, for the file sets of detect_file_overlaps
\* called alone.
OvFiles == 1..(NumFiles + 1)

\* What git diff --name-only <base>...<branch> gives: the files the branch
\* modified, or a non-zero return code.
DiffOutcomes ==
    {DiffResult(0, fs) : fs \in SUBSET OvFiles} \cup {DiffResult(1, {})}

\* detect_file_overlaps, lines 151-155: only a diff that returned 0 gives its
\* ticket an entry.
FilesByTicket(out) ==
    [t \in {u \in DOMAIN out : out[u].returncode = 0} |-> out[t].files]

\* detect_file_overlaps called alone, lines 145-155: nothing is run in
\* dry-run mode; else every branch is diffed.
OvDiffs ==
    /\ pc = "ov_call"
    /\ IF config.dry_run
       THEN /\ merge_conflicts' = <<>>
            /\ files_by_ticket' = files_by_ticket
            /\ pc' = "ov_done"
       ELSE /\ files_by_ticket' = FilesByTicket(diff_out)
            /\ merge_conflicts' = merge_conflicts
            /\ pc' = "ov_pairs"
    /\ UNCHANGED <<parseVars, cfgVars, diff_out, tickets, deps, config, error, planVars, failed_tickets,
                   cur, results, wave_results, task, completed_branches, merged,
                   merging, to_merge, trunk, remote, test_passed, invoked,
                   ever_merged, git_log>>

\* detect_file_overlaps, lines 157-171
OvPairs ==
    /\ pc = "ov_pairs"
    /\ merge_conflicts' = detect_file_overlaps(config, files_by_ticket)
    /\ pc' = "ov_done"
    /\ UNCHANGED <<parseVars, cfgVars, ovVars, tickets, deps, config, error, planVars, failed_tickets,
                   cur, results, wave_results, task, completed_branches, merged,
                   merging, to_merge, trunk, remote, test_passed, invoked,
                   ever_merged, git_log>>

CalledProcessError(cmd) == [type |-> "CalledProcessError", cmd |-> cmd]

\* merge_branches, line 185: git checkout <base>, check=True
MergeCheckout ==
    /\ pc = "merge_checkout"
    /\ git_log' = Logged(config, git_log, Cmd("checkout", 0))
    /\ \/ /\ pc' = "merge_pull"
          /\ error' = error
       \/ /\ ~config.dry_run
          /\ pc' = "raised"
          /\ error' = CalledProcessError("checkout")
    /\ UNCHANGED <<parseVars, cfgVars, ovVars, tickets, deps, config, planVars, failed_tickets, cur, results,
                   wave_results, task, completed_branches, merged, merging, to_merge,
                   trunk, remote, merge_conflicts, test_passed, invoked, ever_merged>>

\* The branches in the order the dict holds them when the keys are inserted
\* in descending order.
MergeOrder_Unsorted(branches) ==
    [i \in 1..Cardinality(branches) |->
        SortedSeq(branches)[Cardinality(branches) + 1 - i]]

\* The branches named in an overlap report left out of the merge.
MergeOrder_SkipOverlapping(branches) ==
    SortedSeq({t \in branches :
                  \A i \in 1..Len(merge_conflicts) :
                      t \notin {merge_conflicts[i].ticket_a, merge_conflicts[i].ticket_b}})

\* for ticket in sorted(branches.keys()): (line 189)
MergeOrder(branches) == SortedSeq(branches)

\* merge_branches, lines 186-189: git pull <remote> <base>, check=True
MergePull ==
    /\ pc = "merge_pull"
    /\ git_log' = Logged(config, git_log, Cmd("pull", 0))
    /\ \/ /\ pc' = "merge_loop"
          /\ error' = error
          /\ merged' = <<>>
          /\ to_merge' = MergeOrder(completed_branches)
          /\ trunk' = IF config.dry_run THEN trunk ELSE trunk \cup remote
       \/ /\ ~config.dry_run
          /\ pc' = "raised"
          /\ error' = CalledProcessError("pull")
          /\ UNCHANGED <<merged, to_merge, trunk>>
    /\ UNCHANGED <<parseVars, cfgVars, ovVars, tickets, deps, config, planVars, failed_tickets, cur, results,
                   wave_results, task, completed_branches, merging, remote,
                   merge_conflicts, test_passed, invoked, ever_merged>>

\* merge_branches, lines 189-200: the next branch's git merge --no-ff starts
MergeBegin ==
    /\ pc = "merge_loop"
    /\ to_merge # <<>>
    /\ merging = {}
    /\ merging' = {Head(to_merge)}
    /\ git_log' = Logged(config, git_log, Cmd("merge", Head(to_merge)))
    /\ UNCHANGED <<parseVars, cfgVars, ovVars, tickets, deps, config, pc, error, planVars, failed_tickets, cur,
                   results, wave_results, task, completed_branches, merged, to_merge,
                   trunk, remote, merge_conflicts, test_passed, invoked, ever_merged>>

\* The loop left with break after a failed merge.
AfterFailedMerge_Break(queue) == <<>>

\* merge_branches, line 205: continue with the next branch
AfterFailedMerge(queue) == Tail(queue)

\* The failed merge left in the working tree of the base branch.
merge_abort_Keep(trk, t) == trk \cup {t}

\* merge_branches, line 204: git merge --abort takes the base branch back to
\* where it was before the attempt.
merge_abort(trk, t) == trk

\* merge_branches, lines 202-207: the merge returns; a failed one is aborted
\* (the abort runs with check=False and its result is not read)
MergeEnd ==
    /\ pc = "merge_loop"
    /\ merging # {}
    /\ LET t == Head(to_merge) IN
       \/ /\ merged' = Append(merged, t)
          /\ ever_merged' = ever_merged \cup {t}
          /\ trunk' = IF config.dry_run THEN trunk ELSE trunk \cup {t}
          /\ git_log' = git_log
          /\ to_merge' = Tail(to_merge)
       \/ /\ ~config.dry_run
          /\ merged' = merged
          /\ ever_merged' = ever_merged
          /\ trunk' = merge_abort(trunk, t)
          /\ git_log' = Logged(config, git_log, Cmd("merge --abort", t))
          /\ to_merge' = AfterFailedMerge(to_merge)
    /\ merging' = {}
    /\ UNCHANGED <<parseVars, cfgVars, ovVars, tickets, deps, config, pc, error, planVars, failed_tickets, cur,
                   results, wave_results, task, completed_branches, remote,
                   merge_conflicts, test_passed, invoked>>

\* The push without the test of merged.
ShouldPush_Always(cfg, mrg) == ~cfg.dry_run

\* merge_branches, lines 209-213: git push <remote> <base>, check=True
ShouldPush(cfg, mrg) == mrg # <<>> /\ ~cfg.dry_run

MergePush ==
    /\ pc = "merge_loop"
    /\ to_merge = <<>>
    /\ merging = {}
    /\ IF ShouldPush(config, merged)
       THEN /\ git_log' = Logged(config, git_log, Cmd("push", 0))
            /\ \/ /\ pc' = "mark"
                  /\ remote' = trunk
                  /\ error' = error
               \/ /\ pc' = "raised"
                  /\ remote' = remote
                  /\ error' = CalledProcessError("push")
       ELSE /\ pc' = "mark"
            /\ UNCHANGED <<git_log, remote, error>>
    /\ UNCHANGED <<parseVars, cfgVars, ovVars, tickets, deps, config, planVars, failed_tickets, cur, results,
                   wave_results, task, completed_branches, merged, merging, to_merge,
                   trunk, merge_conflicts, test_passed, invoked, ever_merged>>

\* No branch taken as not merged.
NotMerged_None(branches, mrg) == {}

\* run, lines 402-408
NotMerged(branches, mrg) == {t \in branches : t \notin Range(mrg)}

\* The results left as the wave returned them.
MarkFailedMerge_Keep(res, unmerged) == res

\* The override that also forgets the branch.
MarkFailedMerge_DropBranch(res, unmerged) ==
    [t \in DOMAIN res |->
        IF t \in unmerged
        THEN Result("failed", FALSE, MergeFailedMessage)
        ELSE res[t]]

\* run, lines 403-408
MarkFailedMerge(res, unmerged) ==
    [t \in DOMAIN res |->
        IF t \in unmerged
        THEN [res[t] EXCEPT !.status = "failed", !.error = MergeFailedMessage]
        ELSE res[t]]

\* The refresh after every merge phase.
ShouldRefresh_Always(mrg) == TRUE

\* run, line 411: if merged:
ShouldRefresh(mrg) == mrg # <<>>

\* run, lines 401-411
MarkUnmerged ==
    /\ pc = "mark"
    /\ LET unmerged == NotMerged(completed_branches, merged) IN
       /\ failed_tickets' = failed_tickets \cup unmerged
       /\ results' = MarkFailedMerge(results, unmerged)
    /\ IF ShouldRefresh(merged)
       THEN /\ pc' = "refresh"
            /\ cur' = cur
       ELSE /\ pc' = "wave_loop"
            /\ cur' = NextWave(cur)
    /\ UNCHANGED <<parseVars, cfgVars, ovVars, tickets, deps, config, error, planVars, wave_results, task,
                   completed_branches, merged, merging, to_merge, trunk, remote,
                   merge_conflicts, test_passed, invoked, ever_merged, git_log>>

\* run, line 412, and refresh_remote: git fetch <remote>, check=True
Refresh ==
    /\ pc = "refresh"
    /\ git_log' = Logged(config, git_log, Cmd("fetch", 0))
    /\ \/ /\ pc' = "wave_loop"
          /\ cur' = NextWave(cur)
          /\ error' = error
       \/ /\ ~config.dry_run
          /\ pc' = "raised"
          /\ cur' = cur
          /\ error' = CalledProcessError("fetch")
    /\ UNCHANGED <<parseVars, cfgVars, ovVars, tickets, deps, config, planVars, failed_tickets, results,
                   wave_results, task, completed_branches, merged, merging, to_merge,
                   trunk, remote, merge_conflicts, test_passed, invoked, ever_merged>>

\* DAGResult.summary, the totals of its last line.
summary(res) ==
    [total |-> Cardinality(DOMAIN res),
     completed |-> Cardinality({t \in DOMAIN res : res[t].status = "completed"}),
     failed |-> Cardinality({t \in DOMAIN res : res[t].status = "failed"})]

(* ----------------------------- validation ------------------------------ *)

\* run, lines 414-415 and 421-422: the loop is over
AfterWaves ==
    /\ pc = "wave_loop"
    /\ cur > Len(dag_waves)
    /\ pc' = IF config.test_command THEN "test_checkout" ELSE "done"
    /\ UNCHANGED <<parseVars, cfgVars, ovVars, tickets, deps, config, error, planVars, runVars>>

\* run, line 416: git checkout <base>, check=True
TestCheckout ==
    /\ pc = "test_checkout"
    /\ git_log' = Logged(config, git_log, Cmd("checkout", 0))
    /\ \/ /\ pc' = "test"
          /\ error' = error
       \/ /\ ~config.dry_run
          /\ pc' = "raised"
          /\ error' = CalledProcessError("checkout")
    /\ UNCHANGED <<parseVars, cfgVars, ovVars, tickets, deps, config, planVars, failed_tickets, cur, results,
                   wave_results, task, completed_branches, merged, merging, to_merge,
                   trunk, remote, merge_conflicts, test_passed, invoked, ever_merged>>

\* DAGResult, models.py: the fields of the run's result that run fills in.
DAGResult(res, ws, mc, tp) ==
    [results_by_ticket |-> res, waves |-> ws, merge_conflicts |-> mc, test_passed |-> tp]

\* The outcomes of subprocess.run(command, shell=True, timeout=600): the
\* command's exit status, here 0 or 1, or TimeoutExpired.
ExitCodes == {0, 1}

\* The test command's entry of the log: it was executed and exited with rc.
TestRun(rc) == [op |-> "test", ticket |-> 0, wave |-> cur, returncode |-> rc]

run_test_command_IgnoreExit(cfg, rc) == "True"

\* run_test_command, lines 219-242: in dry-run mode the command is not
\* executed and the answer is True; otherwise True exactly on exit status 0.
run_test_command(cfg, rc) ==
    IF cfg.dry_run THEN "True" ELSE IF rc = 0 THEN "True" ELSE "False"

SetTestPassed_FailTickets(dr, passed) ==
    [dr EXCEPT !.test_passed = passed,
               !.results_by_ticket =
                   IF passed = "False"
                   THEN [t \in DOMAIN dr.results_by_ticket |->
                            [dr.results_by_ticket[t] EXCEPT !.status = "failed"]]
                   ELSE dr.results_by_ticket]

\* run, line 417: dag_result.test_passed = ...
SetTestPassed(dr, passed) == [dr EXCEPT !.test_passed = passed]

\* run, lines 417-422, and run_test_command: the command exits with a status
\* or exceeds subprocess.run's timeout.
RunTest ==
    /\ pc = "test"
    /\ \/ \E rc \in ExitCodes :
            LET dr == SetTestPassed(DAGResult(results, dag_waves, merge_conflicts,
                                              test_passed),
                                    run_test_command(config, rc))
            IN  /\ git_log' = Logged(config, git_log, TestRun(rc))
                /\ results' = dr.results_by_ticket
                /\ dag_waves' = dr.waves
                /\ merge_conflicts' = dr.merge_conflicts
                /\ test_passed' = dr.test_passed
                /\ pc' = "done"
                /\ error' = error
       \/ /\ ~config.dry_run
          /\ git_log' = Append(git_log, Cmd("test", 0))
          /\ pc' = "raised"
          /\ error' = [type |-> "TimeoutExpired"]
          /\ UNCHANGED <<results, dag_waves, merge_conflicts, test_passed>>
    /\ UNCHANGED <<parseVars, cfgVars, ovVars, tickets, deps, config, nodes, in_degree, remaining, tw_waves,
                   wave_num, deps_for, failed_tickets, cur, wave_results, task,
                   completed_branches, merged, merging, to_merge, trunk, remote,
                   invoked, ever_merged>>

(* ------------------------------ parsing ------------------------------- *)

\* deps = parse_deps(dep_spec)
ParseDeps ==
    /\ pc = "parse_call"
    /\ LET r == parse_dep_spec(dep_spec) IN
       \/ /\ r.ok
          /\ deps' = r.deps
          /\ pc' = "parse_done"
          /\ error' = error
       \/ /\ ~r.ok
          /\ deps' = deps
          /\ pc' = "raised"
          /\ error' = r.error
    /\ UNCHANGED <<parseVars, cfgVars, ovVars, tickets, config, planVars, runVars>>

(* ------------------------- per-ticket configs -------------------------- *)

\* create_worktree, lines 291-294: the worktree of issue n is the directory
\* <repo_name>-issue-<n> under worktree_base_path; repo_name and the base path
\* are fields no ticket writes, the issue number is the argument.
worktree_path_of(n) == [dir |-> "repo-issue", issue |-> n]

copy_copy_Alias(obj, t) == obj

\* copy.copy(self.config), line 261: a new object; the one made for ticket t
\* is named t here.
copy_copy(obj, t) == t

\* _make_ticket_config, lines 256-265: a shallow copy of self.config with
\* worktree mode on, no worktree path yet and the ticket as issue number.
make_ticket_config(objs, t) ==
    LET obj == copy_copy(BaseConfigObject, t)
        copied == [o \in DOMAIN objs \cup {obj} |->
                      IF o = obj THEN objs[BaseConfigObject] ELSE objs[o]]
    IN  [obj |-> obj,
         objects |-> [copied EXCEPT ![obj] = [@ EXCEPT !.use_worktree = TRUE,
                                                       !.worktree_path = NoPath,
                                                       !.issue_number = t]]]

\* create_worktree, lines 316-317: self.config.worktree_path = worktree_path,
\* on the config object the ticket's GitOperations was given.
create_worktree(objs, obj, n) ==
    [objs EXCEPT ![obj] = [@ EXCEPT !.worktree_path = worktree_path_of(n)]]

\* The tickets whose _process_ticket has started and not ended.
Executing == {t \in DOMAIN ticket_pc : ticket_pc[t] \in {"configured", "worktree"}}

\* _process_ticket, lines 269-270: the ticket's config is made and handed to
\* its TicketProcessor.
MakeTicketConfig(t) ==
    /\ pc = "wave_tasks"
    /\ t \in DOMAIN ticket_pc
    /\ ticket_pc[t] = "idle"
    /\ LET r == make_ticket_config(config_objects, t) IN
       /\ config_objects' = r.objects
       /\ ticket_config' = (t :> r.obj) @@ ticket_config
    /\ ticket_pc' = [ticket_pc EXCEPT ![t] = "configured"]
    /\ UNCHANGED <<parseVars, ovVars, tickets, deps, config, pc, error, planVars, runVars>>

\* process_single -> create_branch -> create_worktree(issue_number, title):
\* git worktree add succeeds and the path is recorded, or RuntimeError ends
\* the ticket with the path unset.
CreateWorktree(t) ==
    /\ pc = "wave_tasks"
    /\ t \in DOMAIN ticket_pc
    /\ ticket_pc[t] = "configured"
    /\ \/ /\ config_objects' = create_worktree(config_objects, ticket_config[t], t)
          /\ ticket_pc' = [ticket_pc EXCEPT ![t] = "worktree"]
       \/ /\ ~config.dry_run
          /\ config_objects' = config_objects
          /\ ticket_pc' = [ticket_pc EXCEPT ![t] = "ended"]
    /\ UNCHANGED <<parseVars, ovVars, tickets, deps, config, pc, error, planVars, runVars,
                   ticket_config>>

\* process_single, processor.py 216-228: the ticket ends; cleanup_worktree
\* leaves the config as it is.
TicketEnd(t) ==
    /\ pc = "wave_tasks"
    /\ t \in DOMAIN ticket_pc
    /\ ticket_pc[t] = "worktree"
    /\ ticket_pc' = [ticket_pc EXCEPT ![t] = "ended"]
    /\ UNCHANGED <<parseVars, ovVars, tickets, deps, config, pc, error, planVars, runVars,
                   config_objects, ticket_config>>

(* --------------------------- specifications ---------------------------- *)

NextPlan == BuildDag \/ TopoInit \/ KahnRound \/ TopoReturn

SpecPlan == InitPlan /\ [][NextPlan]_vars

\* Planning on the ticket lists 1..k and every dependency map within the
\* bounds (the order of the list does not enter the loop's progress).
InitPlanFair ==
    /\ tickets \in {[i \in 1..k |-> i] : k \in 0..NumTickets}
    /\ deps \in DepMaps
    /\ config = DefaultConfig
    /\ InitRest

\* Planning is straight-line code and one loop: a step that can be taken is
\* taken.
SpecPlanFair == InitPlanFair /\ [][NextPlan]_vars /\ WF_vars(NextPlan)

\* detect_file_overlaps alone, on every set of branches and every outcome of
\* their diffs within the bounds. In dry-run mode no branch is created and
\* no file is modified.
InitOverlap ==
    /\ tickets = <<>>
    /\ deps = <<>>
    /\ config \in {c \in Configs : c = [DefaultConfig EXCEPT !.dry_run = c.dry_run]}
    /\ completed_branches \in SUBSET Ids
    /\ diff_out \in [completed_branches -> DiffOutcomes]
    /\ config.dry_run => \A t \in completed_branches : diff_out[t] = DiffResult(0, {})
    /\ pc = "ov_call"
    /\ dep_spec = <<>>
    /\ InitConfigObjects
    /\ InitData

NextOverlap == OvDiffs \/ OvPairs

SpecOverlap == InitOverlap /\ [][NextOverlap]_vars

\* parse_deps alone, on every string of at most MaxChars characters.
InitParse ==
    /\ dep_spec \in SeqsUpTo(Chars, MaxChars)
    /\ tickets = <<>>
    /\ deps = <<>>
    /\ config = DefaultConfig
    /\ completed_branches = {}
    /\ diff_out = <<>>
    /\ pc = "parse_call"
    /\ InitConfigObjects
    /\ InitData

NextParse == ParseDeps

SpecParse == InitParse /\ [][NextParse]_vars

\* _process_ticket alone, for the tickets of one wave started together
\* (asyncio.gather, line 313), over every interleaving of their steps.
InitIsolation ==
    /\ tickets = <<>>
    /\ deps = <<>>
    /\ config \in {c \in Configs : c = [DefaultConfig EXCEPT !.dry_run = c.dry_run]}
    /\ completed_branches = {}
    /\ diff_out = <<>>
    /\ dep_spec = <<>>
    /\ pc = "wave_tasks"
    /\ \E base \in BaseConfigs : config_objects = (BaseConfigObject :> base)
    /\ ticket_config = <<>>
    /\ \E W \in SUBSET Ids : ticket_pc = [t \in W |-> "idle"]
    /\ InitData

NextIsolation ==
    \E t \in Ids : MakeTicketConfig(t) \/ CreateWorktree(t) \/ TicketEnd(t)

SpecIsolation == InitIsolation /\ [][NextIsolation]_vars

\* Ticket lists 1..k in ascending order and dependency maps with ascending,
\* duplicate-free lists for the listed tickets only: the order of a list and
\* the entries of other tickets do not reach the run (see SpecPlan for them).
RunTicketLists == {SortedSeq(1..k) : k \in 0..NumTickets}

RunDepMaps(tks) ==
    {d \in DepMaps :
        /\ DOMAIN d \subseteq Range(tks)
        /\ \A t \in DOMAIN d : IsStrictlyAscending(d[t])}

Init ==
    /\ tickets \in RunTicketLists
    /\ deps \in RunDepMaps(tickets)
    /\ config \in Configs
    /\ InitRest

Next ==
    \/ BuildDag
    \/ TopoInit
    \/ KahnRound
    \/ TopoReturn
    \/ WaveStart
    \/ \E t \in Ids : TaskStart(t)
    \/ \E t \in Ids : TaskFinish(t)
    \/ Collect
    \/ DetectOverlaps
    \/ MergeCheckout
    \/ MergePull
    \/ MergeBegin
    \/ MergeEnd
    \/ MergePush
    \/ MarkUnmerged
    \/ Refresh
    \/ AfterWaves
    \/ TestCheckout
    \/ RunTest

Spec == Init /\ [][Next]_vars

\* Every step of run that can be taken is taken: each work-agent call and
\* each command returns or raises.
SpecFair == Spec /\ WF_vars(Next)

\* The runs in which every TicketProcessor can be constructed: the only ones
\* that reach the merge queue.
InitMerge ==
    /\ Init
    /\ config.token_ok

SpecMerge == InitMerge /\ [][Next]_vars

(* ------------------- vocabulary of the properties --------------------- *)

\* The prerequisites the input gives for a listed ticket.
Prereqs(t) == Range(DepsGet(deps, t))

Listed == Range(tickets)

HasUnknownPrereq == \E t \in Listed : \E d \in Prereqs(t) : d \notin Listed

\* Tickets reachable from the tickets of S along prerequisite edges, in 1..n steps.
RECURSIVE Upstream(_, _)
Upstream(S, n) ==
    IF n = 0 \/ S = {} THEN {}
    ELSE LET step == UNION {Prereqs(t) : t \in S} IN
         step \cup Upstream(step, n - 1)

Ancestors(t) == Upstream({t}, NumTickets)

HasCycle == \E t \in Listed : t \in Ancestors(t)

\* Tickets that depend on f directly or transitively.
Descendants(f) == {d \in Listed : f \in Ancestors(d)}

InWave(t, i) == i \in 1..Len(dag_waves) /\ t \in Range(dag_waves[i].tickets)

Scheduled(t) == \E i \in 1..Len(dag_waves) : InWave(t, i)

WaveIndexOf(t) == CHOOSE i \in 1..Len(dag_waves) : InWave(t, i)

\* Number of places in the returned waves that hold ticket t.
Occurrences(t) ==
    SumOver([i \in 1..Len(dag_waves) |-> Count(dag_waves[i].tickets, t)],
            1..Len(dag_waves))

IsSkipped(r) == r.status = "failed" /\ r.error = SkippedMessage

MergeCmds == SelectSeq(git_log, LAMBDA c : c.op = "merge")

\* How many times the command op was executed for ticket t in wave w.
CmdCount(op, t, w) ==
    Cardinality({i \in 1..Len(git_log) :
                    git_log[i] = [op |-> op, ticket |-> t, wave |-> w]})

\* The merge command at place i of the log has returned.
MergeReturned(i) == i < Len(git_log) \/ merging = {}

\* The command at place i of the log is followed by the abort of its merge.
AbortFollows(i) ==
    /\ i < Len(git_log)
    /\ git_log[i + 1].op = "merge --abort"
    /\ git_log[i + 1].ticket = git_log[i].ticket
    /\ git_log[i + 1].wave = git_log[i].wave

(* ------------------------------- claims ------------------------------- *)

\* C1: whenever the work-agent has been invoked for a ticket, every
\* prerequisite of that ticket was returned as merged by merge_branches
\* before (the code lets the dependents of a blocked ticket run).
C1_PrereqsMergedBeforeInvoke ==
    \A t \in invoked : \A d \in Prereqs(t) : d \in ever_merged

\* C2: a ticket that depends, directly or transitively, on a ticket recorded
\* as failed is never handed to the work-agent, and once its wave has been
\* processed its result is the skipped one.
C2_FailedDependentsSkipped ==
    \A f \in DOMAIN results :
        results[f].status = "failed" =>
            \A d \in Descendants(f) :
                /\ d \notin invoked
                /\ d \in DOMAIN results => IsSkipped(results[d])
                /\ (Scheduled(d) /\ WaveIndexOf(d) < cur) => d \in DOMAIN results

C2_Witness ==
    /\ pc = "done"
    /\ \E f, d, e \in DOMAIN results :
          /\ f \in Prereqs(d)
          /\ d \in Prereqs(e)
          /\ results[f].error = MergeFailedMessage
          /\ IsSkipped(results[d])
          /\ IsSkipped(results[e])

\* C3: while a wave executes, a ticket of the wave has the synthetic skipped
\* result exactly when one of the prerequisites given for it at graph-build
\* time is in the failed set; a skipped ticket has no task and the work-agent
\* is never invoked for it, and every other ticket of the wave has a task.
C3_SkipIffPrereqFailed ==
    /\ pc = "executing" =>
          \A t \in Range(CurrentWave.tickets) :
              LET skipped == t \in DOMAIN wave_results /\ IsSkipped(wave_results[t]) IN
              /\ skipped <=> (\E d \in Prereqs(t) : d \in failed_tickets)
              /\ skipped => t \notin DOMAIN task
              /\ ~skipped => t \in DOMAIN task
    /\ \A t \in DOMAIN results : IsSkipped(results[t]) => t \notin invoked

C3_Witness ==
    /\ pc = "executing"
    /\ \E t \in Range(CurrentWave.tickets) :
          /\ t \in DOMAIN wave_results
          /\ IsSkipped(wave_results[t])
          /\ \E d \in Prereqs(t) : d \notin failed_tickets

\* C4: for an acyclic graph waves are returned, every ticket is in exactly one
\* place of exactly one wave, and the waves hold nothing but tickets.
C4_WavesPartitionTickets ==
    /\ (pc = "raised" /\ error.type = "CycleError") => HasCycle
    /\ pc = "wave_loop" =>
          /\ \A t \in Listed : Occurrences(t) = 1
          /\ \A i \in 1..Len(dag_waves) : Range(dag_waves[i].tickets) \subseteq Listed

C4_Witness ==
    /\ pc = "wave_loop"
    /\ Len(tickets) = NumTickets
    /\ Len(dag_waves) = 2
    /\ ~IsStrictlyAscending(tickets)

\* C5: in the returned waves every prerequisite of a ticket is in a wave with
\* a strictly smaller number than the ticket's, also when the prerequisite is
\* listed twice for the ticket.
C5_PrereqsInEarlierWaves ==
    pc = "wave_loop" =>
        \A t \in Listed : \A d \in Prereqs(t) :
            /\ Scheduled(t) /\ Scheduled(d)
            /\ dag_waves[WaveIndexOf(d)].wave_number < dag_waves[WaveIndexOf(t)].wave_number
            /\ NodeOf(nodes, d).wave < NodeOf(nodes, t).wave

C5_Witness ==
    /\ pc = "wave_loop"
    /\ \E t, d \in Listed : Count(DepsGet(deps, t), d) = 2

\* C6: for a graph with a cycle (a self-dependency included) planning ends
\* with CycleError and no wave list is returned, whatever waves were computed
\* before the cycle was met.
C6_CycleRaisesNoWaves ==
    (HasCycle /\ ~HasUnknownPrereq) =>
        /\ dag_waves = <<>>
        /\ pc \in {"build_dag", "topo_init", "topo_loop", "raised"}
        /\ pc = "raised" => error.type = "CycleError"

C6_Witness ==
    /\ pc = "raised"
    /\ error.type = "CycleError"
    /\ tw_waves # <<>>
    /\ \E t \in Listed : t \in Prereqs(t)

\* C7: build_dag raises ValueError exactly when a listed ticket has a
\* prerequisite that is not listed; the error names such a ticket and such a
\* prerequisite, and no nodes are returned.
C7_UnknownPrereqRaises ==
    pc # "build_dag" =>
        IF HasUnknownPrereq
        THEN /\ pc = "raised"
             /\ error.type = "ValueError"
             /\ error.ticket \in Listed
             /\ error.dep \in Prereqs(error.ticket)
             /\ error.dep \notin Listed
             /\ nodes = <<>>
        ELSE /\ error.type # "ValueError"
             /\ Len(nodes) = Len(tickets)

C7_Witness ==
    /\ pc = "raised"
    /\ error.type = "ValueError"
    /\ \E t \in Listed : Prereqs(t) # {} /\ Prereqs(t) \subseteq Listed

\* C8: with an invalid plan (unknown prerequisite or cycle) the run ends in
\* planning: the work-agent is invoked for no ticket, no ticket gets a result
\* and no command is executed in the main repository.
C8_InvalidPlanNothingRuns ==
    (HasUnknownPrereq \/ HasCycle) =>
        /\ pc \in {"build_dag", "topo_init", "topo_loop", "raised"}
        /\ pc = "raised" => error.type \in {"ValueError", "CycleError"}
        /\ invoked = {}
        /\ git_log = <<>>
        /\ DOMAIN results = {}
        /\ DOMAIN task = {}
        /\ trunk = {} /\ remote = {}

C8_Witness ==
    /\ pc = "raised"
    /\ error.type = "CycleError"
    /\ tw_waves # <<>>
    /\ config.token_ok /\ ~config.dry_run

\* C9: a merge is attempted only for a ticket of the current wave whose
\* execution result is completed with a branch.
C9_OnlyCompletedBranchesMerged ==
    /\ pc \in {"merge_loop", "mark", "refresh"} =>
       \A t \in merging \cup Range(to_merge) \cup Range(merged) :
          /\ InWave(t, cur)
          /\ t \in DOMAIN wave_results
          /\ wave_results[t].status = "completed"
          /\ wave_results[t].branch
    /\ \A i \in 1..Len(git_log) :
          git_log[i].op = "merge" =>
              LET t == git_log[i].ticket IN
              /\ InWave(t, git_log[i].wave)
              /\ t \in invoked
              /\ t \in DOMAIN results
              /\ results[t].branch
              /\ results[t].status = "completed" \/ results[t].error = MergeFailedMessage

C9_Witness ==
    /\ merging # {}
    /\ \E u \in DOMAIN wave_results :
          wave_results[u].status \in {"failed", "blocked"} /\ wave_results[u].branch

\* C10: merges are attempted one at a time, in ascending ticket order within
\* a wave and in wave order across waves.
C10_MergesSequentialInOrder ==
    /\ Cardinality(merging) <= 1
    /\ merging # {} => (to_merge # <<>> /\ merging = {Head(to_merge)})
    /\ IsStrictlyAscending(merged \o to_merge)
    /\ LET m == MergeCmds IN
       \A i \in 1..(Len(m) - 1) :
           \/ m[i].wave < m[i + 1].wave
           \/ /\ m[i].wave = m[i + 1].wave
              /\ m[i].ticket < m[i + 1].ticket

C10_Witness ==
    /\ Len(MergeCmds) = 3
    /\ MergeCmds[1].wave = MergeCmds[2].wave
    /\ MergeCmds[2].wave < MergeCmds[3].wave

\* C11: when merge_branches has run its loop, a merge was attempted exactly
\* once for every branch passed in, whatever the earlier attempts returned;
\* every failed attempt is followed by its abort and no successful one is;
\* the returned list holds exactly the tickets whose own attempt succeeded.
C11_FailedMergeDoesNotStopQueue ==
    /\ pc = "mark" =>
          /\ to_merge = <<>> /\ merging = {}
          /\ Range(merged) \subseteq completed_branches
          /\ IF config.dry_run
             THEN Range(merged) = completed_branches
             ELSE /\ \A t \in completed_branches : CmdCount("merge", t, cur) = 1
                  /\ Range(merged) = completed_branches \cap trunk
    /\ \A i \in 1..Len(git_log) :
          (git_log[i].op = "merge" /\ MergeReturned(i)) =>
              (git_log[i].ticket \in ever_merged) # AbortFollows(i)

C11_Witness ==
    /\ pc = "mark"
    /\ \E a, b \in completed_branches :
          /\ a < b
          /\ a \notin Range(merged)
          /\ b \in Range(merged)
          /\ CmdCount("merge --abort", a, cur) = 1

\* The merge phase of ticket t's wave is over, its marking included.
WavePassed(t) ==
    /\ Scheduled(t)
    /\ \/ WaveIndexOf(t) < cur
       \/ InWave(t, cur) /\ pc = "refresh"
       \/ InWave(t, cur) /\ pc = "raised" /\ error = CalledProcessError("fetch")

\* Tickets whose merge was attempted and failed, in waves that are over.
MergeFailed ==
    {t \in Listed :
        /\ t \notin ever_merged
        /\ \E i \in 1..Len(git_log) : git_log[i].op = "merge" /\ git_log[i].ticket = t
        /\ WavePassed(t)}

\* C12: once a wave's merge phase is over, every ticket of it whose merge was
\* attempted and failed has status failed with error 'Merge into main
\* failed', keeps its branch, is in the failed set and is counted in the
\* failed total of the summary; every merged ticket has status completed.
C12_UnmergedMarkedFailed ==
    LET unmerged == MergeFailed IN
    /\ \A t \in unmerged :
          /\ t \in DOMAIN results
          /\ results[t] = Result("failed", TRUE, MergeFailedMessage)
          /\ t \in failed_tickets
    /\ \A t \in DOMAIN results :
          /\ results[t].error = MergeFailedMessage => t \in invoked \ ever_merged
          /\ t \in ever_merged => results[t].status = "completed"
    /\ summary(results).failed =
          Cardinality(unmerged)
            + Cardinality({t \in DOMAIN results :
                              /\ results[t].status = "failed"
                              /\ results[t].error # MergeFailedMessage})

C12_Witness ==
    /\ pc = "done"
    /\ \E t, u \in DOMAIN results :
          /\ t \in MergeFailed
          /\ u \in ever_merged
          /\ WaveIndexOf(t) = WaveIndexOf(u)
          /\ summary(results).failed = 1
          /\ summary(results).completed = 2

\* merge_branches has run its loop and its push, if any: it returned, or the
\* push raised.
MergeCallOver ==
    pc = "mark" \/ (pc = "raised" /\ error = CalledProcessError("push"))

\* C13: in every call of merge_branches git push is executed at most once,
\* after every merge and abort of the call, and it is executed if and only
\* if at least one branch of the call was merged into the trunk (in dry-run
\* mode no merge is executed and nothing is pushed).
C13_PushOnceAfterMergesIffMerged ==
    /\ \A i \in 1..Len(git_log) :
          git_log[i].op = "push" =>
              \A j \in 1..Len(git_log) :
                  git_log[j].wave = git_log[i].wave =>
                      /\ git_log[j].op = "push" => j = i
                      /\ git_log[j].op \in {"merge", "merge --abort"} => j < i
    /\ pc = "merge_loop" => CmdCount("push", 0, cur) = 0
    /\ MergeCallOver =>
          /\ to_merge = <<>> /\ merging = {}
          /\ CmdCount("push", 0, cur) = 1 <=> completed_branches \cap trunk # {}
          /\ config.dry_run => git_log = <<>> /\ remote = {}

C13_Witness ==
    /\ pc = "mark"
    /\ CmdCount("push", 0, cur) = 1
    /\ CmdCount("push", 0, 1) = 1
    /\ cur = 2
    /\ \E t \in completed_branches : CmdCount("merge --abort", t, cur) = 1

\* C14: at no time are more than config.max_parallel work-agent calls in
\* progress, also in a wave with more tickets than that; tasks exist only
\* while their wave executes.
C14_AtMostMaxParallelRunning ==
    /\ Cardinality(Running) <= config.max_parallel
    /\ Running \subseteq invoked
    /\ DOMAIN task # {} => pc = "executing"

C14_Witness ==
    /\ pc = "executing"
    /\ config.max_parallel = MaxParallel
    /\ Cardinality(Running) = config.max_parallel
    /\ Waiting # {}
    /\ Len(CurrentWave.tickets) > config.max_parallel

\* C15: every ticket of a wave that has been processed has a result, and a
\* ticket whose processing raised before the work-agent was invoked has a
\* failed one; processing a ticket never ends the run (the code gives no
\* result to a ticket whose TicketProcessor could not be constructed).
C15_ExceptionBecomesFailedResult ==
    /\ \A t \in Listed :
          (Scheduled(t) /\ WaveIndexOf(t) < cur) =>
              /\ t \in DOMAIN results
              /\ t \notin invoked => results[t].status = "failed"
    /\ pc = "raised" => error.type # "Exception"

\* Tickets whose work-agent call has started and has not ended.
InProgress ==
    {t \in invoked :
        /\ t \notin DOMAIN results
        /\ ~(t \in DOMAIN task /\ task[t].st = "returned")}

\* C16: a ticket execution is in progress only while its own wave executes;
\* while a wave executes no merge is under way or queued, every command of
\* the main repository belongs to an earlier wave, every earlier wave's
\* tickets have ended and its merge phase is finished (each push is followed
\* by the refresh of its wave).
C16_PhasesNeverOverlap ==
    /\ InProgress # {} => pc = "executing"
    /\ pc = "executing" =>
          /\ merging = {} /\ to_merge = <<>>
          /\ DOMAIN task \subseteq Range(CurrentWave.tickets)
          /\ InProgress \subseteq DOMAIN task
          /\ \A i \in 1..Len(git_log) :
                /\ git_log[i].wave < cur
                /\ git_log[i].op = "push" =>
                      \E j \in (i + 1)..Len(git_log) :
                          git_log[j].op = "fetch" /\ git_log[j].wave = git_log[i].wave
          /\ \A u \in DOMAIN results :
                Mergeable(results[u]) => u \in ever_merged
    /\ \A t \in invoked : Scheduled(t) /\ WaveIndexOf(t) <= cur

C16_Witness ==
    /\ pc = "executing"
    /\ cur = 2
    /\ Running # {}
    /\ \E i \in 1..Len(git_log) : git_log[i].op = "fetch"
    /\ \E i \in 1..Len(git_log) : git_log[i].op = "merge --abort"

\* C17: once planning has succeeded, no ticket execution and no command of a
\* wave's merge phase ends run with an exception: while the waves are being
\* processed run never raises (the code runs checkout, pull, push and fetch
\* with check=True).
C17_RunAlwaysReturnsResult ==
    (pc = "raised" /\ error.type \notin {"ValueError", "CycleError"}) =>
        cur > Len(dag_waves)

\* C18: a work-agent call starts only for a ticket that was never invoked
\* and has no result, a merge starts only for a ticket that is not merged,
\* not marked as failed to merge and has no merge command in the log, and the
\* wave loop never goes back.
C18_NoRetry ==
    [][/\ \A t \in Ids :
            (t \in Running' /\ t \notin Running) =>
                (t \notin invoked /\ t \notin DOMAIN results)
       /\ \A t \in merging' \ merging :
            /\ t \notin ever_merged
            /\ t \in DOMAIN results /\ results[t].error # MergeFailedMessage
            /\ \A i \in 1..Len(git_log) :
                  ~(git_log[i].op = "merge" /\ git_log[i].ticket = t)
       /\ cur' >= cur
       /\ invoked \subseteq invoked' /\ ever_merged \subseteq ever_merged'
      ]_vars

C18_Witness ==
    /\ pc = "done"
    /\ invoked = Ids
    /\ Len(dag_waves) = 2
    /\ \E t \in DOMAIN results :
          /\ results[t].error = MergeFailedMessage
          /\ CmdCount("merge", t, WaveIndexOf(t)) = 1
          /\ WaveIndexOf(t) = 1

\* The branches whose diff returned 0.
Diffed == {t \in completed_branches : diff_out[t].returncode = 0}

\* The places of the returned list that report the pair a, b.
ReportsOf(a, b) ==
    {i \in 1..Len(merge_conflicts) :
        {merge_conflicts[i].ticket_a, merge_conflicts[i].ticket_b} = {a, b}}

C20_OverlapsAdvisory ==
    [][/\ pc = "detect" =>
            /\ pc' = "merge_checkout"
            /\ Len(merge_conflicts') >= Len(merge_conflicts)
            /\ SubSeq(merge_conflicts', 1, Len(merge_conflicts)) = merge_conflicts
            /\ UNCHANGED <<completed_branches, results, wave_results, failed_tickets,
                           merged, merging, to_merge, trunk, remote, cur, ever_merged,
                           invoked, test_passed>>
       /\ pc \notin {"detect", "ov_call", "ov_pairs"} => merge_conflicts' = merge_conflicts
       /\ (pc = "merge_pull" /\ pc' = "merge_loop") =>
            /\ to_merge' = SortedSeq(CompletedBranches(wave_results))
            /\ merged' = <<>>
       /\ pc = "merge_loop" =>
            \A t \in merging' \ merging : t = Head(to_merge)
      ]_vars

C20_Witness ==
    /\ pc = "mark"
    /\ \E i \in 1..Len(merge_conflicts) :
          /\ merge_conflicts[i].ticket_a \in Range(merged)
          /\ merge_conflicts[i].ticket_b \in completed_branches \ Range(merged)
          /\ InWave(merge_conflicts[i].ticket_a, cur)
    /\ \E t \in Range(merged) :
          \A i \in 1..Len(merge_conflicts) :
              t \notin {merge_conflicts[i].ticket_a, merge_conflicts[i].ticket_b}

(* ------------------------------ validation ------------------------------ *)

\* The places of the log where the validation command was executed.
TestRuns == {i \in 1..Len(git_log) : git_log[i].op = "test"}

\* The validation command was executed exactly once, at place i of the log,
\* after every command of the merge phases.
TestRanOnceAfterMerges ==
    /\ Cardinality(TestRuns) = 1
    /\ \A i \in TestRuns :
          /\ git_log[i].wave > Len(dag_waves)
          /\ \A j \in 1..Len(git_log) :
                git_log[j].op \in {"merge", "merge --abort", "push", "fetch", "pull"}
                    => j < i

\* test_passed is the pass/fail outcome of the one execution of the command.
TestPassedIsOutcome ==
    \A i \in TestRuns :
        test_passed = (IF git_log[i].returncode = 0 THEN "True" ELSE "False")

C22_ValidationOnlySetsTestPassed ==
    [][(pc \in {"test_checkout", "test"} \/ (pc = "wave_loop" /\ cur > Len(dag_waves)))
          => /\ results' = results
             /\ dag_waves' = dag_waves
             /\ merge_conflicts' = merge_conflicts
             /\ failed_tickets' = failed_tickets]_vars

C22_Witness ==
    /\ pc = "done"
    /\ test_passed = "False"
    /\ \E t \in DOMAIN results : results[t].status = "completed"
    /\ \E t \in DOMAIN results : results[t].status = "failed"

(* --------------------------- ticket isolation --------------------------- *)

\* The config object ticket t works with.
ConfigOf(t) == config_objects[ticket_config[t]]

\* C23: no two concurrently executing tickets share a workspace: each has a
\* config object of its own, not the base config, with worktree mode on, its
\* own issue number and, once created, its own worktree path; and a step of
\* one ticket changes neither another ticket's config nor the base config.
C23_TicketsAreIsolated ==
    /\ [](\A t \in Executing :
             /\ ticket_config[t] # BaseConfigObject
             /\ ConfigOf(t).use_worktree
             /\ ConfigOf(t).issue_number = t
             /\ ConfigOf(t).worktree_path =
                    (IF ticket_pc[t] = "worktree" THEN worktree_path_of(t) ELSE NoPath)
             /\ \A u \in Executing \ {t} :
                   /\ ticket_config[u] # ticket_config[t]
                   /\ (ticket_pc[t] = "worktree" /\ ticket_pc[u] = "worktree")
                          => ConfigOf(u).worktree_path # ConfigOf(t).worktree_path)
    /\ [][\A o \in DOMAIN config_objects :
             config_objects'[o] # config_objects[o] =>
                 /\ o # BaseConfigObject
                 /\ \E t \in DOMAIN ticket_pc :
                       /\ ticket_pc'[t] # ticket_pc[t]
                       /\ ticket_config'[t] = o
                       /\ \A u \in DOMAIN ticket_config' \ {t} : ticket_config'[u] # o]_vars

C23_Witness ==
    /\ Cardinality({t \in Executing : ticket_pc[t] = "worktree"}) >= 2
    /\ \E t \in Executing : ticket_pc[t] = "configured"
    /\ ~config_objects[BaseConfigObject].use_worktree

(* ---------------------------- the wave plan ---------------------------- *)

\* C24: each returned wave lists its tickets in ascending order, and
\* topological_waves returns these same waves for the same tickets and
\* prerequisite lists given as nodes in any other order.
C24_WavesIndependentOfNodeOrder ==
    pc = "wave_loop" =>
        /\ \A i \in 1..Len(dag_waves) : IsStrictlyAscending(dag_waves[i].tickets)
        /\ \A order \in Perms(Listed) :
              LET r == topological_waves(build_dag(order, deps).nodes)
              IN  r.ok /\ r.waves = dag_waves

C24_Witness ==
    /\ pc = "wave_loop"
    /\ ~IsStrictlyAscending(tickets)
    /\ \E i \in 1..Len(dag_waves) : Len(dag_waves[i].tickets) >= 2
    /\ Len(dag_waves) >= 2

\* The number of the wave that holds ticket t.
WaveOf(t) == dag_waves[WaveIndexOf(t)].wave_number

\* C25: for an acyclic plan every ticket is in the earliest possible wave:
\* wave 1 without prerequisites, otherwise one more than the largest wave of
\* its prerequisites. Tickets 197..202 with 197 on 200 and 198 on 197 give
\* {199,200,201,202}, {197}, {198}; the diamond gives {1}, {2,3}, {4}.
C25_EarliestWave ==
    pc = "wave_loop" =>
        /\ \A t \in Listed :
              /\ Scheduled(t)
              /\ \A d \in Prereqs(t) : Scheduled(d)
              /\ Prereqs(t) = {} => WaveOf(t) = 1
              /\ Prereqs(t) # {} =>
                    /\ \A d \in Prereqs(t) : WaveOf(t) >= 1 + WaveOf(d)
                    /\ \E d \in Prereqs(t) : WaveOf(t) = 1 + WaveOf(d)
        /\ (tickets = ExampleChain.tickets /\ deps = ExampleChain.deps) =>
              dag_waves = <<DAGWave(1, <<199, 200, 201, 202>>),
                            DAGWave(2, <<197>>), DAGWave(3, <<198>>)>>
        /\ (tickets = ExampleDiamond.tickets /\ deps = ExampleDiamond.deps) =>
              dag_waves = <<DAGWave(1, <<1>>), DAGWave(2, <<2, 3>>), DAGWave(3, <<4>>)>>

C25_Witness ==
    /\ pc = "wave_loop"
    /\ tickets = ExampleChain.tickets
    /\ deps = ExampleChain.deps
    /\ Len(dag_waves) = 3

\* C26: for an acyclic plan the returned waves are non-empty and numbered
\* 1, 2, ..., k in list order, each node's wave field is the number of the
\* wave that holds it, and the field is written once, from -1 to that number.
C26_WavesNumberedNodesWrittenOnce ==
    /\ [](pc = "wave_loop" =>
             /\ \A i \in 1..Len(dag_waves) :
                   /\ dag_waves[i].wave_number = i
                   /\ dag_waves[i].tickets # <<>>
             /\ \A i \in 1..Len(nodes) :
                   /\ Scheduled(nodes[i].ticket_number)
                   /\ nodes[i].wave = WaveOf(nodes[i].ticket_number))
    /\ [][\A i \in 1..Len(nodes) :
             (Len(nodes') = Len(nodes) /\ nodes'[i].wave # nodes[i].wave) =>
                 /\ nodes[i].wave = -1
                 /\ nodes'[i].wave = wave_num
                 /\ nodes'[i].wave >= 1]_vars

C26_Witness ==
    /\ pc = "wave_loop"
    /\ Len(dag_waves) = 3
    /\ \A i \in 1..Len(nodes) : nodes[i].wave # -1

\* C28: when validation passes, build_dag returns one node per entry of the
\* ticket list, in list order, each with the prerequisite list the mapping
\* gives for its ticket (empty when it gives none) and wave -1.
C28_OneNodePerTicketInOrder ==
    pc = "topo_init" =>
        /\ Len(nodes) = Len(tickets)
        /\ \A i \in 1..Len(tickets) :
              /\ nodes[i].ticket_number = tickets[i]
              /\ nodes[i].depends_on =
                    (IF tickets[i] \in DOMAIN deps THEN deps[tickets[i]] ELSE <<>>)
              /\ nodes[i].wave = -1

C28_Witness ==
    /\ pc = "topo_init"
    /\ ~IsStrictlyAscending(tickets)
    /\ \E i \in 1..Len(nodes) : Len(nodes[i].depends_on) = 2
    /\ \E i \in 1..Len(nodes) : nodes[i].depends_on = <<>>

\* C30: topological_waves terminates: every round of its loop removes at
\* least one ticket from remaining or raises CycleError, so there are at most
\* as many rounds as tickets, and planning ends with the waves or an error.
C30_PlanningTerminates ==
    /\ [](pc = "topo_loop" => (wave_num - 1) + Cardinality(remaining) <= Len(nodes))
    /\ [][pc = "topo_loop" =>
             \/ pc' = "wave_loop" /\ remaining = {}
             \/ pc' = "raised" /\ error'.type = "CycleError" /\ remaining # {}
             \/ /\ pc' = "topo_loop"
                /\ remaining' \subseteq remaining
                /\ remaining' # remaining
                /\ wave_num' = wave_num + 1]_vars
    /\ <>(pc \in {"wave_loop", "raised"})

C30_Witness ==
    /\ pc = "topo_loop"
    /\ wave_num - 1 = Len(nodes)
    /\ Len(nodes) = NumTickets
    /\ remaining = {}

(* ------------------------------- parse_deps ----------------------------- *)

\* The child:parent entries of the specification string, in order: the
\* comma-separated pieces that hold a colon, as <<child, parent>>.
PairsOfSpec ==
    LET pieces == split(dep_spec, ",")
        withSep == SelectSeq(pieces, LAMBDA x : ":" \in Range(x))
    IN  [i \in 1..Len(withSep) |->
            <<int_of(strip(child_str(withSep[i]))), int_of(strip(parent_str(withSep[i])))>>]

\* The parents of the entries of ps whose child is c, in order.
RECURSIVE ParentsOf(_, _)
ParentsOf(ps, c) ==
    IF ps = <<>> THEN <<>>
    ELSE (IF Head(ps)[1] = c THEN <<Head(ps)[2]>> ELSE <<>>) \o ParentsOf(Tail(ps), c)

\* C27: parse_deps maps each child of at least one child:parent entry to the
\* list of all its parents in specification order, repeats kept; an entry
\* without a separator adds nothing, and an empty or blank string gives the
\* empty mapping.
C27_ParseDepsMapsChildrenToParents ==
    pc = "parse_done" =>
        /\ DOMAIN deps = {PairsOfSpec[i][1] : i \in 1..Len(PairsOfSpec)}
        /\ \A c \in DOMAIN deps : deps[c] = ParentsOf(PairsOfSpec, c)
        /\ (\A i \in 1..Len(dep_spec) : dep_spec[i] = " ") => DOMAIN deps = {}
        /\ dep_spec = <<"1", ":", "2", ",", "1", ":", "1">> => deps = (1 :> <<2, 1>>)
        /\ dep_spec = <<"1", ":", "2", ",", "1", ":", "2">> => deps = (1 :> <<2, 2>>)
        /\ dep_spec = <<" ", "1", "2", " ", ":", " ", "2">> => deps = (12 :> <<2>>)
        /\ dep_spec = <<"2", ":", "1", ",", "1", "1", ",">> => deps = (2 :> <<1>>)

C27_Witness ==
    /\ pc = "parse_done"
    /\ \E c \in DOMAIN deps : Len(deps[c]) = 2 /\ deps[c][1] > deps[c][2]

(* --------------------------- results of a run --------------------------- *)

\* C29: when run returns, results_by_ticket holds a result for every ticket
\* of the input list and for no other identifier, the skipped tickets and
\* the tickets whose processing raised included.
C29_OneResultPerTicket ==
    pc = "done" => DOMAIN results = Listed

(* ----------------------------- phases of run ---------------------------- *)

\* The phase of run a position belongs to: 0 Planning, 1 the wave loop,
\* 2 Validating, 3 Done or left with an exception.
PhaseOf(p) ==
    CASE p \in {"build_dag", "topo_init", "topo_loop"} -> 0
      [] p \in {"wave_loop", "executing", "detect", "merge_checkout", "merge_pull",
                "merge_loop", "mark", "refresh"} -> 1
      [] p \in {"test_checkout", "test"} -> 2
      [] OTHER -> 3

\* Within a wave: 0 before it starts, 1 Executing, 2 Merging.
StepOf(p) ==
    CASE p = "wave_loop" -> 0
      [] p = "executing" -> 1
      [] OTHER -> 2

\* C31: for a valid plan, with every work-agent call and every command
\* eventually returning, run reaches Done; the phases follow each other as
\* Planning, then per wave in increasing number Executing then Merging, then
\* Validating, and the run never goes back to an earlier phase or wave.
C31_RunReachesDone ==
    /\ [][/\ PhaseOf(pc') >= PhaseOf(pc)
          /\ cur' >= cur
          /\ (PhaseOf(pc) = 1 /\ PhaseOf(pc') = 1 /\ cur' = cur) => StepOf(pc') >= StepOf(pc)
          /\ (PhaseOf(pc) = 1 /\ cur' > cur) => (pc' = "wave_loop" /\ cur' = cur + 1)]_vars
    /\ (~HasUnknownPrereq /\ ~HasCycle) => <>(pc = "done")

\* The result r is that of a ticket whose branch went to the merge queue:
\* completed with a branch, or marked as failed to merge.
WentToMerge(r) ==
    r.branch /\ (r.status = "completed" \/ r.error = MergeFailedMessage)

\* C32: in a wave where no ticket produced a mergeable branch the merge phase
\* is skipped: the run goes straight to the next wave, no command (diff,
\* checkout, pull, merge, push, fetch) is executed for that wave, no overlap
\* report is added and the trunk and the remote stay as they were.
C32_NoBranchesNoMergePhase ==
    /\ [](\A i \in 1..Len(git_log) :
             git_log[i].wave <= Len(dag_waves) =>
                 \E t \in DOMAIN results :
                     InWave(t, git_log[i].wave) /\ WentToMerge(results[t]))
    /\ [][(/\ pc = "executing"
           /\ pc' # "executing"
           /\ \A t \in DOMAIN wave_results' :
                 ~(wave_results'[t].status = "completed" /\ wave_results'[t].branch))
             => /\ pc' = "wave_loop"
                /\ cur' = cur + 1
                /\ UNCHANGED <<git_log, trunk, remote, merge_conflicts, merged,
                               ever_merged, test_passed>>]_vars

C32_Witness ==
    /\ pc = "done"
    /\ Len(dag_waves) = 2
    /\ \E i \in 1..Len(git_log) : git_log[i].wave = 1 /\ git_log[i].op = "fetch"
    /\ \A i \in 1..Len(git_log) : git_log[i].wave # 2
    /\ \E t \in DOMAIN results :
          InWave(t, 2) /\ results[t].branch /\ results[t].status = "blocked"

\* The places of the log that hold the git fetch of wave w.
Fetches(w) == {j \in 1..Len(git_log) : git_log[j].wave = w /\ git_log[j].op = "fetch"}

\* C33 as stated: in every wave in which the merge was run, the refresh is
\* performed after the merge attempts of the wave, before the next wave.
C33_RefreshAfterEveryMerge ==
    \A w \in 1..Len(dag_waves) :
        (w < cur /\ \E i \in 1..Len(git_log) :
                        git_log[i].wave = w /\ git_log[i].op = "merge")
            => /\ Fetches(w) # {}
               /\ \A j \in Fetches(w) : \A i \in 1..Len(git_log) :
                     (git_log[i].wave = w /\ git_log[i].op # "fetch") => i < j

\* C33 amended: the refresh of a wave is performed exactly when at least one
\* branch of the wave was merged (and the run is not a dry run): then it is
\* performed once, after every merge, abort and push of the wave and after
\* the non-merged tickets were marked failed, and before any ticket of the
\* next wave starts; a wave whose merge merged nothing gets no refresh.
C33_RefreshIffMerged ==
    /\ [](\A w \in 1..Len(dag_waves) :
             w < cur =>
                /\ Cardinality(Fetches(w)) <= 1
                /\ (Fetches(w) # {}) <=>
                      (~config.dry_run /\ \E t \in ever_merged : InWave(t, w))
                /\ \A j \in Fetches(w) : \A i \in 1..Len(git_log) :
                      (git_log[i].wave = w /\ git_log[i].op # "fetch") => i < j)
    /\ [](pc = "executing" => \A i \in 1..Len(git_log) : git_log[i].wave < cur)
    /\ [][(Len(git_log') > Len(git_log) /\ git_log'[Len(git_log')].op = "fetch")
             => /\ pc = "refresh"
                /\ merged # <<>>
                /\ DOMAIN task = {}
                /\ \A t \in completed_branches \ Range(merged) :
                      /\ results[t].status = "failed"
                      /\ results[t].error = MergeFailedMessage
                      /\ t \in failed_tickets]_vars

C33_Witness ==
    /\ pc = "executing"
    /\ cur = 2
    /\ Running # {}
    /\ Fetches(1) # {}
    /\ \E i \in 1..Len(git_log) : git_log[i].op = "merge --abort" /\ git_log[i].wave = 1
    /\ \E i \in 1..Len(git_log) : git_log[i].op = "push" /\ git_log[i].wave = 1

(* ------------------------------ cycle errors ---------------------------- *)

\* The listed tickets that lie on a cycle of prerequisites.
OnCycle == {t \in Listed : t \in Ancestors(t)}

\* The tickets that lie on a cycle or depend, directly or not, on one that does.
Unresolved == {t \in Listed : t \in OnCycle \/ Ancestors(t) \cap OnCycle # {}}

\* C34: the tickets CycleError names are exactly the tickets that lie on a
\* cycle or depend, directly or transitively, on a ticket that lies on one;
\* every other ticket was placed in a wave before the error, and no named
\* ticket was.
C34_CycleErrorNamesUnresolved ==
    (pc = "raised" /\ error.type = "CycleError") =>
        /\ Range(error.tickets) = Unresolved
        /\ IsStrictlyAscending(error.tickets)
        /\ \A t \in Listed :
              (t \in Unresolved) <=>
                  ~(\E i \in 1..Len(tw_waves) : t \in Range(tw_waves[i].tickets))

C34_Witness ==
    /\ pc = "raised"
    /\ error.type = "CycleError"
    /\ \E t \in Range(error.tickets) : t \notin OnCycle
    /\ tw_waves # <<>>

(* ------------------------------- the trunk ------------------------------ *)

\* The tickets whose merge attempt failed and was aborted.
Aborted == {git_log[i].ticket : i \in {j \in 1..Len(git_log) : git_log[j].op = "merge --abort"}}

\* C35 as stated: after any number of waves the trunk contains the
\* contribution of a ticket if and only if merge_branches returned the ticket
\* as merged, and neither the trunk nor the remote contains a branch whose
\* merge failed.
C35_TrunkHoldsExactlyMerged ==
    pc \in {"wave_loop", "done"} =>
        /\ trunk = ever_merged
        /\ remote \subseteq ever_merged
        /\ Aborted \cap (trunk \cup remote) = {}

\* C35 amended: outside dry-run mode a failed merge attempt leaves the trunk
\* and the remote as they were, the trunk contains a ticket's contribution if
\* and only if the ticket's merge succeeded (it is in a merged list), and the
\* remote contains nothing of a branch whose merge failed; in dry-run mode
\* merge_branches returns every ticket as merged while the trunk and the
\* remote are never changed.
C35_TrunkHoldsMergedUnlessDryRun ==
    /\ [](IF config.dry_run
          THEN trunk = {} /\ remote = {}
          ELSE /\ trunk = ever_merged
               /\ remote \subseteq trunk
               /\ Aborted \cap (trunk \cup remote) = {})
    /\ [][(Len(git_log') > Len(git_log) /\ git_log'[Len(git_log')].op = "merge --abort")
             => (trunk' = trunk /\ remote' = remote /\ merged' = merged)]_vars

C35_Witness ==
    /\ pc = "wave_loop"
    /\ cur = 3
    /\ Aborted # {}
    /\ remote # {}
    /\ \E t \in Aborted : \E u \in remote : t < u /\ WaveIndexOf(t) = WaveIndexOf(u)

(* ------------------------------ the results ----------------------------- *)

\* C36: a result is recorded for a ticket when its wave's execution ends and
\* is changed by no later step but the merge-failure override of that wave,
\* which sets the status to failed and the error message and leaves the
\* branch as it was.
C36_ResultsChangeOnlyByMergeOverride ==
    [][/\ \A t \in DOMAIN results :
            /\ t \in DOMAIN results'
            /\ results'[t] # results[t] =>
                  /\ pc = "mark"
                  /\ InWave(t, cur)
                  /\ t \in completed_branches \ Range(merged)
                  /\ results[t].status = "completed"
                  /\ results'[t] = [results[t] EXCEPT !.status = "failed",
                                                      !.error = MergeFailedMessage]
       /\ \A t \in DOMAIN results' \ DOMAIN results :
            pc = "executing" /\ InWave(t, cur)]_vars

C36_Witness ==
    /\ pc = "done"
    /\ Len(dag_waves) = 2
    /\ \E t, u \in DOMAIN results :
          /\ InWave(t, 1) /\ results[t].error = MergeFailedMessage /\ results[t].branch
          /\ InWave(u, 2) /\ results[u].status = "completed"

\* C37: at the end of every wave iteration the failed set is the set of
\* tickets whose recorded result has status failed; at every time each ticket
\* of the failed set has a result with status failed (never blocked or
\* completed), and the set never shrinks.
C37_FailedSetIsFailedResults ==
    /\ [](pc \in {"wave_loop", "test_checkout", "test", "done"} =>
             failed_tickets = {t \in DOMAIN results : results[t].status = "failed"})
    /\ [](\A t \in failed_tickets :
             t \in DOMAIN results /\ results[t].status = "failed")
    /\ [][failed_tickets \subseteq failed_tickets']_vars

C37_Witness ==
    /\ pc = "wave_loop"
    /\ cur = 3
    /\ \E t, u, v \in DOMAIN results :
          /\ results[t].error = MergeFailedMessage
          /\ IsSkipped(results[u])
          /\ results[v].status = "blocked"
          /\ failed_tickets = {t, u}

\* C38: when run returns, the tickets whose final result is completed with a
\* branch are exactly the tickets merge_branches returned as merged: each was
\* merged in its wave, and every merged ticket is still completed.
C38_CompletedIffMerged ==
    pc = "done" =>
        /\ \A t \in DOMAIN results :
              (results[t].status = "completed" /\ results[t].branch) => t \in ever_merged
        /\ \A t \in ever_merged :
              /\ t \in DOMAIN results
              /\ results[t].status = "completed"
              /\ results[t].branch
        /\ ~config.dry_run =>
              \A t \in ever_merged : CmdCount("merge", t, WaveIndexOf(t)) = 1

C38_Witness ==
    /\ pc = "done"
    /\ ~config.dry_run
    /\ ever_merged # {}
    /\ \E t \in DOMAIN results : results[t].error = MergeFailedMessage
    /\ \E t \in DOMAIN results : results[t].status = "blocked" /\ results[t].branch

(* -------------------------------- dry run ------------------------------- *)

\* C39: in dry-run mode the merge queue executes no git command and no
\* validation command, the trunk and the remote stay as they were, no overlap
\* is reported, merge_branches returns every ticket it was given, no command
\* raises, and validation, if configured, is reported as passed.
C39_DryRunChangesNothing ==
    config.dry_run =>
        /\ git_log = <<>>
        /\ trunk = {} /\ remote = {}
        /\ merge_conflicts = <<>>
        /\ pc \in {"mark", "refresh"} => Range(merged) = completed_branches
        /\ pc = "raised" => error.type \in {"ValueError", "CycleError"}
        /\ test_passed \in {"None", "True"}
        /\ pc = "done" =>
              test_passed = (IF config.test_command THEN "True" ELSE "None")

C39_Witness ==
    /\ config.dry_run
    /\ pc = "done"
    /\ test_passed = "True"
    /\ \E t, u \in ever_merged : t # u /\ WaveIndexOf(t) = WaveIndexOf(u)

(* ---------------------- entries of unlisted tickets --------------------- *)

\* The mapping without the entries whose child is not in the ticket list.
ListedDeps == [c \in DOMAIN deps \cap Listed |-> deps[c]]

\* C40: an entry of the mapping whose child is not in the ticket list is
\* ignored: planning gives the nodes, the error and the waves it gives for
\* the mapping without such entries; no node is created for the child and
\* ValueError is raised only for a listed ticket, also when the entry names
\* unknown prerequisites.
C40_UnlistedEntriesIgnored ==
    /\ \A i \in 1..Len(nodes) : nodes[i].ticket_number \in Listed
    /\ pc = "topo_init" => nodes = build_dag(tickets, ListedDeps).nodes
    /\ (pc = "raised" /\ error.type = "ValueError") =>
          /\ error = build_dag(tickets, ListedDeps).error
          /\ error.ticket \in Listed
    /\ (pc # "build_dag" /\ \A t \in Listed : Prereqs(t) \subseteq Listed) =>
          error.type # "ValueError"
    /\ pc = "wave_loop" =>
          dag_waves = topological_waves(build_dag(tickets, ListedDeps).nodes).waves

C40_Witness ==
    /\ pc = "wave_loop"
    /\ Len(dag_waves) >= 2
    /\ \E c \in DOMAIN deps \ Listed : \E p \in Range(deps[c]) : p \notin Listed

====
